---- MODULE Spec2Model ----
(***************************************************************************)
(* twitter2reddit: the publication pipeline of src/twitter2reddit.py.      *)
(* One process at a time constructs a TwitterToReddit object and calls     *)
(* upload() on it; every call fetches the timeline, uploads the media of   *)
(* the statuses that have no document yet to imgur, and posts the imgur    *)
(* links to reddit.  The TinyDB table and the counter document outlive the *)
(* process; everything else is lost when the process ends.                 *)
(***************************************************************************)
EXTENDS Integers, Sequences, FiniteSets, TLC

\* Bounds of the model.
NumStatuses == 4    \* statuses the account ever tweets
MaxDelay == 2       \* largest --delay given on the command line
MaxAttempts == 2    \* largest --attempts given on the command line
MaxFailures == 2    \* processes that end inside upload(), by an exception or a kill
MaxNumber == 3      \* largest "number" a first_time or an update carries; the meta
                    \* table's number is incremented up to one above it

\* Python's None, and the values the external services hand back: tuples
\* that start with the kind of the reference.
None == <<>>

Statuses == 1 .. NumStatuses

\* len(status.media) of the statuses the account tweets: status 2 carries no
\* media, status 4 carries two images, every other status carries one.
MediaCount(s) == IF s = 2 THEN 0 ELSE IF s = 4 THEN 2 ELSE 1

VARIABLES
    timeline,       \* number of statuses tweeted so far (GetUserTimeline returns them all)
    settings,       \* the settings file: all_hash
    table,          \* the TinyDB table: the status documents, in insertion order
    counter,        \* "number" of the number_counter document
    pc,             \* position of the process; "exited" when there is none
    number,         \* self.number of TwitterToReddit
    all_album,      \* self.all_album: deletehash and aid
    unchecked,      \* statuses of this upload() still to go through to_imgur
    partial,        \* statuses of this upload() that have a document without a post
    imgs,           \* ImgurImages.imgs of the status in to_imgur
    uploaded,       \* post_urls of to_imgur: the db_entry dicts
    posts,          \* the documents to_reddit still has to go through
    phase,          \* 1: to_reddit(uploaded), 2: to_reddit(partial_imgur)
    red,            \* the RedditPost object: post, com, ret
    post_urls,      \* the list upload() will return
    result,         \* what the last finished upload() returned
    raised,         \* the exception that ended the process, if one did
    run0,           \* the table, the timeline, the counter and the call counts
                    \* when this upload() started
    uploads,        \* upload_from_url calls imgur accepted, per status
    submits,        \* submit calls reddit accepted, per status
    replies,        \* reply calls reddit accepted, per status
    albums,         \* create_album calls imgur accepted
    failures,       \* processes that ended inside upload()
    meta,           \* the "meta" table of the package's Database, in insertion order
    db,             \* the package's Database object: table_name and number_id
    db_result,      \* what the last call on the package's Database returned or raised
    args,           \* main's command line: --delay and --attempts
    driver,         \* main: its position, delay, attempts, posts, and what it logged
    other,          \* a second process on the same store, while it is not the one
                    \* that takes the step: its pc, self.number, all_album and locals
    convert         \* main of convert_database.py: its position, its comics, and
                    \* whether the number_counter document is still in the table

vars == <<timeline, settings, table, counter, pc, number, all_album, unchecked,
          partial, imgs, uploaded, posts, phase, red, post_urls, result, raised,
          run0, uploads, submits, replies, albums, failures, meta, db, db_result,
          args, driver, other, convert>>

persistent == <<table, counter>>
external == <<uploads, submits, replies, albums>>
locals == <<unchecked, partial, imgs, uploaded, posts, phase, red, post_urls>>
\* Everything of the monolith: what no call on the package's Database writes.
pipeline == <<timeline, settings, table, counter, pc, number, all_album, unchecked,
              partial, imgs, uploaded, posts, phase, red, post_urls, result, raised,
              run0, uploads, submits, replies, albums, failures>>
package == <<meta, db, db_result>>
\* What no step of TwitterToReddit writes: the settings file and the store of
\* the package's Database.
retry == <<args, driver>>
fixed == <<settings, package, retry, other, convert>>
\* What no call on the package's Database writes, and what no step of main's
\* loops writes.
not_package == <<pipeline, retry, other, convert>>
not_retry == <<pipeline, package, other, convert>>

----------------------------------------------------------------------------
\* Values.

ConfiguredHash == <<"deletehash", 0>>
AlbumHash(n) == <<"deletehash", n>>
AlbumId(n) == <<"aid", n>>
ImageId(s, n) == <<"img", s, n>>
Permalink(s, n) == <<"post", s, n>>
CommentPermalink(s, n) == <<"comment", s, n>>
DirectLink(img) == <<"i.imgur.com", img>>
Title(n, s) == <<"title", n, s>>
Text(s) == <<"text", s>>

NoRedditPost == [post |-> None, com |-> None, ret |-> None]
NoException == [call |-> "none", sid |-> 0, left |-> {}]
NotRun == [kind |-> "notrun", posts |-> <<>>]
NoWork == [kind |-> "None", posts |-> <<>>]
Posts(l) == [kind |-> "list", posts |-> l]
NoSnapshot == [table |-> <<>>, uploads |-> [s \in Statuses |-> 0],
               submits |-> [s \in Statuses |-> 0],
               replies |-> [s \in Statuses |-> 0],
               timeline |-> 0, counter |-> 0]

\* dict.get(key): None when the key is missing.
Get(doc, key) == IF key \in DOMAIN doc THEN doc[key] ELSE None

\* dict.update(data), as TinyDB's update applies it to a document.
Merge(doc, data) ==
    [k \in (DOMAIN doc) \cup (DOMAIN data) |->
        IF k \in DOMAIN data THEN data[k] ELSE doc[k]]

Range(seq) == {seq[p] : p \in DOMAIN seq}

----------------------------------------------------------------------------
\* Database.

\* table.search(where("sid") == sid)
check_upload(tbl, sid) == SelectSeq(tbl, LAMBDA d : d.sid = sid)

\* upsert that appends an updated copy and leaves the matching document.
upsert_insert(tbl, data, sid) ==
    IF \E p \in DOMAIN tbl : tbl[p].sid = sid
    THEN Append(tbl, Merge(check_upload(tbl, sid)[1], data))
    ELSE Append(tbl, data)

\* upsert whose update is made without the condition on the key.
upsert_every(tbl, data, sid) ==
    IF \E p \in DOMAIN tbl : tbl[p].sid = sid
    THEN [p \in DOMAIN tbl |-> Merge(tbl[p], data)]
    ELSE Append(tbl, data)

\* table.upsert(data, where("sid") == sid): update every matching document,
\* insert when none matched.
upsert(tbl, data, sid) ==
    IF \E p \in DOMAIN tbl : tbl[p].sid = sid
    THEN [p \in DOMAIN tbl |->
            IF tbl[p].sid = sid THEN Merge(tbl[p], data) ELSE tbl[p]]
    ELSE Append(tbl, data)

\* get_docs("sid", sids): the matching documents, in the order of sids.
RECURSIVE get_docs(_, _)
get_docs(tbl, sids) ==
    IF sids = <<>> THEN <<>>
    ELSE check_upload(tbl, Head(sids)) \o get_docs(tbl, Tail(sids))

----------------------------------------------------------------------------
\* get_statuses.

\* GetUserTimeline: the statuses tweeted so far, most recent first.
RECURSIVE GetUserTimeline(_)
GetUserTimeline(n) == IF n = 0 THEN <<>> ELSE <<n>> \o GetUserTimeline(n - 1)

\* IsPartial with the test of the post turned around.
IsPartial_posted(doc) == doc # <<>> /\ doc[1].post # None

\* IsPartial with the test of the post left out.
IsPartial_any(doc) == doc # <<>>

\* doc and doc[0]["post"] is None
IsPartial(doc) == doc # <<>> /\ doc[1].post = None

\* IsUnchecked with a plain else in the place of elif not doc.
IsUnchecked_else(doc) == doc = <<>> \/ doc[1].post # None

\* elif not doc
IsUnchecked(doc) == ~IsPartial(doc) /\ doc = <<>>

\* Unchecked with the test of status.media left out.
Unchecked_no_media_test(tbl, statuses) ==
    SelectSeq(statuses, LAMBDA s : IsUnchecked(check_upload(tbl, s)))

Unchecked(tbl, statuses) ==
    SelectSeq(statuses,
              LAMBDA s : MediaCount(s) > 0 /\ IsUnchecked(check_upload(tbl, s)))

Partial(tbl, statuses) ==
    SelectSeq(statuses,
              LAMBDA s : MediaCount(s) > 0 /\ IsPartial(check_upload(tbl, s)))

----------------------------------------------------------------------------
\* Where upload() goes after a list has been worked off.

\* partial_imgur = already_uploaded(partial); to_reddit(partial_imgur)
EnterPartial(tbl, part) ==
    LET docs == get_docs(tbl, part)
    IN  IF docs # <<>>
        THEN [pc |-> "submit", posts |-> docs, phase |-> 2]
        ELSE [pc |-> "return", posts |-> <<>>, phase |-> 2]

\* posts = to_reddit(uploaded)
EnterReddit(ups, tbl, part) ==
    IF ups # <<>>
    THEN [pc |-> "submit", posts |-> ups, phase |-> 1]
    ELSE EnterPartial(tbl, part)

\* The eligible statuses of the batch that upload() has not finished, apart
\* from the status it is working on.
Sids(docs) == {docs[p].sid : p \in DOMAIN docs}

Left ==
    IF pc \in {"upload_image", "all_add", "single_album", "upsert", "increment"}
    THEN (Range(Tail(unchecked)) \cup Sids(uploaded) \cup Range(partial))
             \ {Head(unchecked)}
    ELSE IF pc \in {"submit", "reply", "reddit_upsert"}
    THEN Sids(Tail(posts)) \cup (IF phase = 1 THEN Range(partial) ELSE {})
    ELSE {}

\* An exception nobody catches ends upload(), main and the process.
Raise(call, sid) ==
    /\ failures < MaxFailures
    /\ failures' = failures + 1
    /\ pc' = "exited"
    /\ raised' = [call |-> call, sid |-> sid, left |-> Left]
    /\ number' = 0
    /\ all_album' = [deletehash |-> None, aid |-> None]
    /\ unchecked' = <<>>
    /\ partial' = <<>>
    /\ imgs' = <<>>
    /\ uploaded' = <<>>
    /\ posts' = <<>>
    /\ phase' = 0
    /\ red' = NoRedditPost
    /\ post_urls' = <<>>
    /\ result' = NotRun
    /\ run0' = NoSnapshot

----------------------------------------------------------------------------
\* The account tweets its next status.
Tweet ==
    /\ timeline < NumStatuses
    /\ timeline' = timeline + 1
    /\ UNCHANGED <<failures, fixed, persistent, external, locals, pc, number, all_album,
                   result, raised, run0>>

\* main: TwitterToReddit(settings).  self.number = self.database.get_number()
TwitterToReddit_init ==
    /\ pc = "exited"
    /\ pc' = "idle"
    /\ number' = counter
    /\ all_album' = [deletehash |-> settings.all_hash, aid |-> None]
    /\ raised' = NoException
    /\ UNCHANGED <<failures, timeline, fixed, persistent, external, locals, result, run0>>

\* get_statuses behind a lock on the store: it waits while a second process
\* is inside upload().
get_statuses_locked ==
    /\ other.pc \in {"none", "exited", "idle"}
    /\ pc = "idle"
    /\ LET statuses == GetUserTimeline(timeline)
           u == Unchecked(table, statuses)
           p == Partial(table, statuses)
           e == EnterPartial(table, p)
       IN  /\ run0' = [table |-> table, uploads |-> uploads,
                       submits |-> submits, replies |-> replies,
                       timeline |-> timeline, counter |-> counter]
           /\ IF u = <<>> /\ p = <<>>
              THEN /\ result' = NoWork
                   /\ pc' = "idle"
                   /\ UNCHANGED locals
              ELSE /\ result' = NotRun
                   /\ unchecked' = u
                   /\ partial' = p
                   /\ imgs' = <<>>
                   /\ uploaded' = <<>>
                   /\ post_urls' = <<>>
                   /\ red' = NoRedditPost
                   /\ pc' = IF u # <<>> THEN "upload_image" ELSE e.pc
                   /\ posts' = IF u # <<>> THEN <<>> ELSE e.posts
                   /\ phase' = IF u # <<>> THEN 0 ELSE e.phase
    /\ UNCHANGED <<failures, timeline, fixed, persistent, external, number, all_album, raised>>

\* upload() up to the return of get_statuses: the two lists, or None at once
\* when both are empty.
get_statuses ==
    /\ pc = "idle"
    /\ LET statuses == GetUserTimeline(timeline)
           u == Unchecked(table, statuses)
           p == Partial(table, statuses)
           e == EnterPartial(table, p)
       IN  /\ run0' = [table |-> table, uploads |-> uploads,
                       submits |-> submits, replies |-> replies,
                       timeline |-> timeline, counter |-> counter]
           /\ IF u = <<>> /\ p = <<>>
              THEN /\ result' = NoWork
                   /\ pc' = "idle"
                   /\ UNCHANGED locals
              ELSE /\ result' = NotRun
                   /\ unchecked' = u
                   /\ partial' = p
                   /\ imgs' = <<>>
                   /\ uploaded' = <<>>
                   /\ post_urls' = <<>>
                   /\ red' = NoRedditPost
                   /\ pc' = IF u # <<>> THEN "upload_image" ELSE e.pc
                   /\ posts' = IF u # <<>> THEN <<>> ELSE e.posts
                   /\ phase' = IF u # <<>> THEN 0 ELSE e.phase
    /\ UNCHANGED <<failures, timeline, fixed, persistent, external, number, all_album, raised>>

\* GetUserTimeline raises: upload() ends before it has touched anything.
get_statuses_raises ==
    /\ pc = "idle"
    /\ pc' = "exited"
    /\ raised' = [call |-> "GetUserTimeline", sid |-> 0, left |-> {}]
    /\ result' = NotRun
    /\ run0' = NoSnapshot
    /\ number' = 0
    /\ all_album' = [deletehash |-> None, aid |-> None]
    /\ UNCHANGED <<failures, timeline, fixed, persistent, external, locals>>

\* ImgurImages_upload with upload_from_url called a second time for the entry.
ImgurImages_upload_twice ==
    /\ pc = "upload_image"
    /\ Len(imgs) < MediaCount(Head(unchecked))
    /\ LET s == Head(unchecked)
       IN  /\ uploads' = [uploads EXCEPT ![s] = @ + 2]
           /\ imgs' = Append(imgs, ImageId(s, uploads[s] + 2))
           /\ pc' = IF Len(imgs) + 1 = MediaCount(s) THEN "all_add" ELSE "upload_image"
    /\ UNCHANGED <<failures, timeline, fixed, persistent, submits, replies, albums, number,
                   all_album, unchecked, partial, uploaded, posts, phase, red,
                   post_urls, result, raised, run0>>

ImgurImages_upload ==
    /\ pc = "upload_image"
    /\ Len(imgs) < MediaCount(Head(unchecked))
    /\ LET s == Head(unchecked)
       IN  /\ uploads' = [uploads EXCEPT ![s] = @ + 1]
           /\ imgs' = Append(imgs, ImageId(s, uploads[s] + 1))
           /\ pc' = IF Len(imgs) + 1 = MediaCount(s) THEN "all_add" ELSE "upload_image"
    /\ UNCHANGED <<failures, timeline, fixed, persistent, submits, replies, albums, number,
                   all_album, unchecked, partial, uploaded, posts, phase, red,
                   post_urls, result, raised, run0>>

\* ImgurImages_upload_raises with the upsert of db_entry moved before the upload.
ImgurImages_upload_raises_after_upsert ==
    /\ pc = "upload_image"
    /\ LET s == Head(unchecked)
       IN  table' = upsert(table,
                           [sid |-> s, raw |-> Text(s), title |-> None, imgs |-> imgs,
                            url |-> None, album |-> None, aid |-> None, post |-> None,
                            number |-> number], s)
    /\ Raise("upload_from_url", Head(unchecked))
    /\ UNCHANGED <<timeline, fixed, counter, external>>

\* upload_from_url raises: nothing of to_imgur after line 460 runs.
ImgurImages_upload_raises ==
    /\ pc = "upload_image"
    /\ Raise("upload_from_url", Head(unchecked))
    /\ UNCHANGED <<timeline, fixed, persistent, external>>

\* self.all_album.add(self.imgur, imgs): creates the album when the object has
\* no deletehash, then album_add_images.
ImgurAlbum_add ==
    /\ pc = "all_add"
    /\ IF all_album.deletehash = None
       THEN /\ albums' = albums + 1
            /\ all_album' = [deletehash |-> AlbumHash(albums + 1),
                             aid |-> AlbumId(albums + 1)]
       ELSE UNCHANGED <<albums, all_album>>
    /\ pc' = IF MediaCount(Head(unchecked)) > 1 THEN "single_album" ELSE "upsert"
    /\ UNCHANGED <<failures, timeline, fixed, persistent, uploads, submits, replies, number,
                   locals, result, raised, run0>>

\* create_album or album_add_images raises.
ImgurAlbum_add_raises ==
    /\ pc = "all_add"
    /\ \E created \in BOOLEAN :
          /\ created => all_album.deletehash = None
          /\ albums' = IF created THEN albums + 1 ELSE albums
    /\ Raise("album_add_images", Head(unchecked))
    /\ UNCHANGED <<timeline, fixed, persistent, uploads, submits, replies>>

\* len(status.media) > 1: single_album returns what create() returns, the
\* deletehash string, and album.add on a string raises AttributeError.
single_album ==
    /\ pc = "single_album"
    /\ albums' = albums + 1
    /\ Raise("AttributeError", Head(unchecked))
    /\ UNCHANGED <<timeline, fixed, persistent, uploads, submits, replies>>

\* create_album raises in single_album.
single_album_raises ==
    /\ pc = "single_album"
    /\ Raise("create_album", Head(unchecked))
    /\ UNCHANGED <<timeline, fixed, persistent, external>>

\* db_entry with the assignments of lines 461 and 474 left out.
db_entry_no_media(s, num, ids, album) ==
    [sid |-> s, raw |-> Text(s), title |-> Title(num, s), imgs |-> <<>>,
     url |-> None, album |-> album.deletehash, aid |-> album.aid,
     post |-> None, number |-> num]

\* db_entry with the assignment of line 474 left out.
db_entry_no_url(s, num, ids, album) ==
    [sid |-> s, raw |-> Text(s), title |-> Title(num, s), imgs |-> ids,
     url |-> None, album |-> album.deletehash, aid |-> album.aid,
     post |-> None, number |-> num]

\* The db_entry of to_imgur for a status with one image.
db_entry(s, num, ids, album) ==
    [sid |-> s, raw |-> Text(s), title |-> Title(num, s), imgs |-> ids,
     url |-> DirectLink(ids[1]), album |-> album.deletehash, aid |-> album.aid,
     post |-> None, number |-> num]

\* to_imgur_upsert with the counter incremented before the upsert as well.
to_imgur_upsert_incrementing ==
    /\ pc = "upsert"
    /\ counter' = counter + 1
    /\ LET s == Head(unchecked)
           entry == db_entry(s, number, imgs, all_album)
       IN  /\ table' = upsert(table, entry, s)
           /\ uploaded' = Append(uploaded, entry)
    /\ pc' = "increment"
    /\ UNCHANGED <<failures, timeline, fixed, external, number, all_album, unchecked,
                   partial, imgs, posts, phase, red, post_urls, result, raised, run0>>

\* self.database.upsert(db_entry, "sid", status.sid); post_urls.append(db_entry)
to_imgur_upsert ==
    /\ pc = "upsert"
    /\ LET s == Head(unchecked)
           entry == db_entry(s, number, imgs, all_album)
       IN  /\ table' = upsert(table, entry, s)
           /\ uploaded' = Append(uploaded, entry)
    /\ pc' = "increment"
    /\ UNCHANGED <<failures, timeline, fixed, counter, external, number, all_album, unchecked,
                   partial, imgs, posts, phase, red, post_urls, result, raised, run0>>

\* self.number = self.database.increment_number(), then the next status of
\* the loop or, after the last, to_reddit(uploaded).
increment_number ==
    /\ pc = "increment"
    /\ counter' = counter + 1
    /\ number' = counter + 1
    /\ unchecked' = Tail(unchecked)
    /\ imgs' = <<>>
    /\ LET e == EnterReddit(uploaded, table, partial)
       IN  IF Tail(unchecked) # <<>>
           THEN /\ pc' = "upload_image"
                /\ UNCHANGED <<posts, phase>>
           ELSE /\ pc' = e.pc
                /\ posts' = e.posts
                /\ phase' = e.phase
    /\ UNCHANGED <<failures, timeline, fixed, table, external, all_album, partial, uploaded,
                   red, post_urls, result, raised, run0>>

\* to_reddit, one document: RedditPost(...) and the start of its upload().
\* A document without a post is submitted; with a post and without "com" the
\* reply is sent through self.ret, which is None in a new RedditPost.
RedditPost_upload ==
    /\ pc = "submit"
    /\ LET doc == Head(posts)
           s == doc.sid
       IN  IF Get(doc, "post") = None
           THEN /\ submits' = [submits EXCEPT ![s] = @ + 1]
                /\ red' = [post |-> None, com |-> Get(doc, "com"),
                           ret |-> Permalink(s, submits[s] + 1)]
                /\ pc' = "reply"
                /\ UNCHANGED <<failures, timeline, fixed, persistent, uploads, replies, albums,
                               number, all_album, unchecked, partial, imgs, uploaded,
                               posts, phase, post_urls, result, raised, run0>>
           ELSE IF Get(doc, "com") = None
           THEN /\ Raise("AttributeError", s)
                /\ UNCHANGED <<timeline, fixed, persistent, external>>
           ELSE /\ red' = [post |-> Get(doc, "post"), com |-> Get(doc, "com"),
                           ret |-> None]
                /\ pc' = "reddit_upsert"
                /\ UNCHANGED <<failures, timeline, fixed, persistent, external, number,
                               all_album, unchecked, partial, imgs, uploaded, posts,
                               phase, post_urls, result, raised, run0>>

\* subreddit.submit raises.
RedditPost_submit_raises ==
    /\ pc = "submit"
    /\ Get(Head(posts), "post") = None
    /\ Raise("submit", Head(posts).sid)
    /\ UNCHANGED <<timeline, fixed, persistent, external>>

\* disable_inbox_replies, self.post = self.ret.permalink, and the reply.
RedditPost_reply ==
    /\ pc = "reply"
    /\ LET s == Head(posts).sid
       IN  /\ replies' = [replies EXCEPT ![s] = @ + 1]
           /\ red' = [post |-> red.ret, com |-> CommentPermalink(s, replies[s] + 1),
                      ret |-> red.ret]
    /\ pc' = "reddit_upsert"
    /\ UNCHANGED <<failures, timeline, fixed, persistent, uploads, submits, albums, number,
                   all_album, unchecked, partial, imgs, uploaded, posts, phase,
                   post_urls, result, raised, run0>>

\* disable_inbox_replies or reply raises.
RedditPost_reply_raises ==
    /\ pc = "reply"
    /\ Raise("reply", Head(posts).sid)
    /\ UNCHANGED <<timeline, fixed, persistent, external>>

\* reddit_fields with self.number written along.
reddit_fields_numbered(res, link, com) ==
    [post |-> res, url |-> link, comment |-> com, number |-> number]

\* reddit_fields with the post left at None beside the comment.
reddit_fields_comment_only(res, link, com) ==
    [post |-> None, url |-> link, comment |-> com]

\* The data of to_reddit's upsert.
reddit_fields(res, link, com) == [post |-> res, url |-> link, comment |-> com]

\* to_reddit after RedditPost.upload returned (res, com): the upsert of post,
\* url and comment, then the next document, the partial list or the return.
to_reddit_upsert ==
    /\ pc = "reddit_upsert"
    /\ LET doc == Head(posts)
           res == red.post
           com == red.com
           tbl == IF res = None /\ com = None
                  THEN table
                  ELSE upsert(table, reddit_fields(res, doc.url, com), doc.sid)
           e == EnterPartial(tbl, partial)
       IN  /\ table' = tbl
           /\ post_urls' = IF res = None /\ com = None
                           THEN post_urls ELSE Append(post_urls, res)
           /\ red' = NoRedditPost
           /\ IF Tail(posts) # <<>>
              THEN /\ posts' = Tail(posts)
                   /\ pc' = "submit"
                   /\ UNCHANGED phase
              ELSE IF phase = 1
              THEN /\ posts' = e.posts
                   /\ pc' = e.pc
                   /\ phase' = e.phase
              ELSE /\ posts' = <<>>
                   /\ pc' = "return"
                   /\ UNCHANGED phase
    /\ UNCHANGED <<failures, timeline, fixed, counter, external, number, all_album, unchecked,
                   partial, imgs, uploaded, result, raised, run0>>

\* upload_return without posts.extend(partial_posts).
upload_return_not_extended ==
    /\ pc = "return"
    /\ result' = Posts(SubSeq(post_urls, 1, Len(uploaded)))
    /\ pc' = "idle"
    /\ unchecked' = <<>>
    /\ partial' = <<>>
    /\ imgs' = <<>>
    /\ uploaded' = <<>>
    /\ posts' = <<>>
    /\ phase' = 0
    /\ post_urls' = <<>>
    /\ UNCHANGED <<failures, timeline, fixed, persistent, external, number, all_album, red,
                   raised, run0>>

\* upload_return with partial_posts returned in the place of the extended
\* list.
upload_return_partial_only ==
    /\ pc = "return"
    /\ result' = Posts(SubSeq(post_urls, Len(uploaded) + 1, Len(post_urls)))
    /\ pc' = "idle"
    /\ unchecked' = <<>>
    /\ partial' = <<>>
    /\ imgs' = <<>>
    /\ uploaded' = <<>>
    /\ posts' = <<>>
    /\ phase' = 0
    /\ post_urls' = <<>>
    /\ UNCHANGED <<failures, timeline, fixed, persistent, external, number, all_album, red,
                   raised, run0>>

\* posts.extend(partial_posts); return posts
upload_return ==
    /\ pc = "return"
    /\ result' = Posts(post_urls)
    /\ pc' = "idle"
    /\ unchecked' = <<>>
    /\ partial' = <<>>
    /\ imgs' = <<>>
    /\ uploaded' = <<>>
    /\ posts' = <<>>
    /\ phase' = 0
    /\ post_urls' = <<>>
    /\ UNCHANGED <<failures, timeline, fixed, persistent, external, number, all_album, red,
                   raised, run0>>

\* The process is killed inside upload(), between two of its steps.
crash ==
    /\ pc \notin {"exited", "idle"}
    /\ Raise("crash", 0)
    /\ UNCHANGED <<timeline, fixed, persistent, external>>

\* main returns.
main_exit ==
    /\ pc = "idle"
    /\ pc' = "exited"
    /\ result' = NotRun
    /\ run0' = NoSnapshot
    /\ number' = 0
    /\ all_album' = [deletehash |-> None, aid |-> None]
    /\ UNCHANGED <<failures, timeline, fixed, persistent, external, locals, raised>>

----------------------------------------------------------------------------
\* The store of the package (src/twitter2reddit/database.py): the meta table
\* holds, for each table name, one document with the number and the settings
\* of the pairing.

TableName == "comics"       \* settings["table"], the table argument of Database
Empty == [k \in {} |-> 0]   \* the empty dict

NoDatabase == [table_name |-> "", number_id |-> 0]
NoCall == [op |-> "none", kind |-> "none", number |-> 0, first_time |-> Empty]
Returned(op, n) == [op |-> op, kind |-> "return", number |-> n, first_time |-> Empty]
Raised(op, exc) == [op |-> op, kind |-> exc, number |-> 0, first_time |-> Empty]

NoPackage ==
    /\ meta = <<>>
    /\ db = NoDatabase
    /\ db_result = NoCall

Pop(doc, keys) == [k \in (DOMAIN doc) \ keys |-> doc[k]]

\* The first_time dicts a caller passes: each key is given or left out.  The
\* title and the imgur group, which _check_first_time only reshapes, are
\* taken as given; the empty dict stands for first_time=None as well.  A
\* dict carries the keys of the twitter side or those of the reddit side.
TwitterKeys ==
    {Merge(u, tw) :
        u \in {Empty, [user_name |-> "artist"], [user_name |-> "other"]},
        tw \in {Empty, [twitter |-> [user_name |-> "artist"]],
                [twitter |-> [user_url |-> "url"]]}}

RedditKeys ==
    {Merge(sr, rd) :
        sr \in {Empty, [subreddit |-> "comics"], [subreddit |-> "other"]},
        rd \in {Empty, [reddit |-> [subreddit |-> "comics"]],
                [reddit |-> [flair |-> "art"]]}}

FirstTimes ==
    {Merge(Merge(t, n), k) :
        t \in {Empty, [table |-> TableName], [table |-> "other"]},
        n \in {Empty} \cup {[number |-> i] : i \in 1 .. MaxNumber},
        k \in TwitterKeys \cup RedditKeys}

\* check_first_time_raises without the comparison of the table names.
check_first_time_raises_no_table(first_time, tbl) ==
    \/ /\ "user_name" \in DOMAIN first_time
       /\ "twitter" \in DOMAIN first_time
       /\ "user_name" \in DOMAIN first_time.twitter
       /\ first_time.user_name # first_time.twitter.user_name
    \/ /\ "subreddit" \in DOMAIN first_time
       /\ "reddit" \in DOMAIN first_time
       /\ "subreddit" \in DOMAIN first_time.reddit
       /\ first_time.subreddit # first_time.reddit.subreddit

\* The three raise KeyError of _check_first_time.
check_first_time_raises(first_time, tbl) ==
    \/ "table" \in DOMAIN first_time /\ first_time.table # tbl
    \/ /\ "user_name" \in DOMAIN first_time
       /\ "twitter" \in DOMAIN first_time
       /\ "user_name" \in DOMAIN first_time.twitter
       /\ first_time.user_name # first_time.twitter.user_name
    \/ /\ "subreddit" \in DOMAIN first_time
       /\ "reddit" \in DOMAIN first_time
       /\ "subreddit" \in DOMAIN first_time.reddit
       /\ first_time.subreddit # first_time.reddit.subreddit

\* _check_first_time when it returns: table and number defaulted, the root
\* user_name and subreddit moved into their groups and popped.
check_first_time(first_time, tbl) ==
    LET a == Merge([table |-> tbl], first_time)
        b == Merge([number |-> 1], a)
        c == IF "user_name" \in DOMAIN b /\ "twitter" \notin DOMAIN b
             THEN Merge(b, [twitter |-> [user_name |-> b.user_name]])
             ELSE b
        d == IF /\ "subreddit" \in DOMAIN c
                /\ ("reddit" \in DOMAIN c => "subreddit" \notin DOMAIN c.reddit)
             THEN Merge(c, [reddit |-> [subreddit |-> c.subreddit]])
             ELSE c
    IN  Pop(d, {"user_name", "subreddit"})

\* self.meta.upsert(data, where("table") == name)
meta_upsert(m, data, name) ==
    IF \E p \in DOMAIN m : m[p].table = name
    THEN [p \in DOMAIN m |-> IF m[p].table = name THEN Merge(m[p], data) ELSE m[p]]
    ELSE Append(m, data)

\* self.meta.update(update, where("table") == self.table_name)
meta_update(m, update, name) ==
    [p \in DOMAIN m |-> IF m[p].table = name THEN Merge(m[p], update) ELSE m[p]]

\* self.meta.search(where("table") == self.table_name): the doc_ids.
meta_search(m, name) == {p \in DOMAIN m : m[p].table = name}

Min(S) == CHOOSE x \in S : \A y \in S : x <= y

\* Database(filename, table, first_time)
Database_init ==
    /\ db = NoDatabase
    /\ \E first_time \in FirstTimes :
          IF first_time = Empty
          THEN /\ db' = [table_name |-> TableName, number_id |-> 0]
               /\ db_result' = Returned("__init__", 0)
               /\ UNCHANGED meta
          ELSE IF check_first_time_raises(first_time, TableName)
          THEN /\ db_result' = [Raised("__init__", "KeyError")
                                   EXCEPT !.first_time = first_time]
               /\ UNCHANGED <<meta, db>>
          ELSE /\ meta' = LET data == check_first_time(first_time, TableName)
                          IN  meta_upsert(meta, data, data.table)
               /\ db' = [table_name |-> TableName, number_id |-> 0]
               /\ db_result' = [Returned("__init__", 0)
                                   EXCEPT !.first_time = first_time]
    /\ UNCHANGED not_package

\* get_settings on the meta table m: the number_id it leaves and the number
\* of the settings it returns, or the IndexError of results[0].
get_settings(m, d) ==
    IF d.number_id = 0 /\ meta_search(m, d.table_name) = {}
    THEN [raises |-> TRUE, number_id |-> 0, number |-> 0]
    ELSE LET id == IF d.number_id = 0
                   THEN Min(meta_search(m, d.table_name))
                   ELSE d.number_id
         IN  [raises |-> FALSE, number_id |-> id, number |-> m[id].number]

Database_get_settings ==
    /\ db # NoDatabase
    /\ LET r == get_settings(meta, db)
       IN  IF r.raises
           THEN /\ db' = NoDatabase
                /\ db_result' = Raised("get_settings", "IndexError")
           ELSE /\ db' = [db EXCEPT !.number_id = r.number_id]
                /\ db_result' = Returned("get_settings", r.number)
    /\ UNCHANGED <<meta, not_package>>

\* The dicts a caller passes to update_meta.
Updates ==
    {[number |-> i] : i \in 1 .. MaxNumber} \cup {[reddit |-> [subreddit |-> "other"]]}

Database_update_meta ==
    /\ db # NoDatabase
    /\ \E update \in Updates :
          LET m == meta_update(meta, update, db.table_name)
              r == get_settings(m, db)
          IN  /\ meta' = m
              /\ IF r.raises
                 THEN /\ db' = NoDatabase
                      /\ db_result' = Raised("update_meta", "IndexError")
                 ELSE /\ db' = [db EXCEPT !.number_id = r.number_id]
                      /\ db_result' = Returned("update_meta", r.number)
    /\ UNCHANGED not_package

\* self.meta.update(increment("number"), doc_ids=[self.number_id]): TinyDB
\* looks the document up by its id and raises KeyError for the id None.
Database_increment_number ==
    /\ db # NoDatabase
    /\ IF db.number_id = 0
       THEN /\ db' = NoDatabase
            /\ db_result' = Raised("increment_number", "KeyError")
            /\ UNCHANGED meta
       ELSE /\ meta[db.number_id].number <= MaxNumber
            /\ meta' = [meta EXCEPT ![db.number_id].number = @ + 1]
            /\ db_result' = Returned("increment_number", meta[db.number_id].number + 1)
            /\ UNCHANGED db
    /\ UNCHANGED not_package

\* The process that holds the Database object ends.
Database_exit ==
    /\ db # NoDatabase
    /\ db' = NoDatabase
    /\ db_result' = NoCall
    /\ UNCHANGED <<meta, not_package>>

----------------------------------------------------------------------------
\* main (src/main.py, and main of src/twitter2reddit.py): the loops around
\* upload().  upload() is the call of the loops: it hands back None, an empty
\* list or a list of posts, or it raises.

MonolithAttempts == 60      \* attemps <= 60 in main of src/twitter2reddit.py

Results == {"None", "[]", "list"}

NoRetry ==
    /\ args = [delay |-> 0, attempts |-> 0]
    /\ driver = [kind |-> "none", pc |-> "exited", delay |-> 0, attempts |-> 0,
                 posts |-> "None", calls |-> 0, looped |-> 0, raises |-> 0,
                 log |-> {}]

\* attempts = 1; delay = 1; t2r = TwitterToReddit(settings); posts = None
main_start ==
    [kind |-> "main.py", pc |-> "delay_loop", delay |-> 1, attempts |-> 1,
     posts |-> "None", calls |-> 0, looped |-> 0, raises |-> 0, log |-> {}]

\* attemps = 1; t2r = TwitterToReddit(settings), before posts = t2r.upload()
monolith_main_start ==
    [kind |-> "monolith", pc |-> "first_upload", delay |-> 0, attempts |-> 1,
     posts |-> "None", calls |-> 0, looped |-> 0, raises |-> 0, log |-> {}]

\* delay_loop_test without the bound on delay.
delay_loop_test_unbounded(d, a) == d.posts = "None"

\* while posts is None and delay <= args.delay
delay_loop_test(d, a) == d.posts = "None" /\ d.delay <= a.delay

\* attempts_loop_test without the test of the length of the list.
attempts_loop_test_any_list(d, a) ==
    /\ d.posts # "None"
    /\ d.attempts <= (IF d.kind = "monolith" THEN MonolithAttempts ELSE a.attempts)

\* while posts is not None and len(posts) == 0 and attempts <= args.attempts
attempts_loop_test(d, a) ==
    /\ d.posts = "[]"
    /\ d.attempts <= (IF d.kind = "monolith" THEN MonolithAttempts ELSE a.attempts)

\* The calls of upload() the model follows: more than any command line of
\* the model allows.
MaxCalls == MaxDelay + MaxAttempts + MonolithAttempts + 1

\* An exception of upload() ends main: no try is around the call.
main_raises ==
    /\ driver.calls < MaxCalls
    /\ driver' = [driver EXCEPT !.pc = "raised", !.calls = @ + 1, !.raises = @ + 1]
    /\ UNCHANGED <<args, not_retry>>

\* posts = t2r.upload() of the monolith's main.
monolith_main_upload ==
    /\ driver.pc = "first_upload"
    /\ driver.calls < MaxCalls
    /\ \E r \in Results :
          driver' = [driver EXCEPT !.posts = r, !.calls = @ + 1,
                                   !.pc = "attempts_loop"]
    /\ UNCHANGED <<args, not_retry>>

monolith_main_upload_raises ==
    /\ driver.pc = "first_upload"
    /\ main_raises

\* One turn of the first loop: posts = t2r.upload(); sleep(60); delay += 1
main_delay_loop ==
    /\ driver.pc = "delay_loop"
    /\ delay_loop_test(driver, args)
    /\ driver.calls < MaxCalls
    /\ \E r \in Results :
          driver' = [driver EXCEPT !.posts = r, !.calls = @ + 1, !.delay = @ + 1]
    /\ UNCHANGED <<args, not_retry>>

main_delay_loop_raises ==
    /\ driver.pc = "delay_loop"
    /\ delay_loop_test(driver, args)
    /\ main_raises

\* The test of the first loop fails.
main_delay_loop_end ==
    /\ driver.pc = "delay_loop"
    /\ ~delay_loop_test(driver, args)
    /\ driver' = [driver EXCEPT !.pc = "attempts_loop"]
    /\ UNCHANGED <<args, not_retry>>

\* One turn of the second loop: logging.warning; sleep(60);
\* posts = t2r.upload(); attempts += 1
main_attempts_loop ==
    /\ driver.pc = "attempts_loop"
    /\ attempts_loop_test(driver, args)
    /\ driver.calls < MaxCalls
    /\ \E r \in Results :
          driver' = [driver EXCEPT !.posts = r, !.calls = @ + 1, !.looped = @ + 1,
                                   !.attempts = @ + 1,
                                   !.log = @ \cup {"warning"}]
    /\ UNCHANGED <<args, not_retry>>

main_attempts_loop_raises ==
    /\ driver.pc = "attempts_loop"
    /\ attempts_loop_test(driver, args)
    /\ driver.calls < MaxCalls
    /\ driver' = [driver EXCEPT !.pc = "raised", !.calls = @ + 1, !.looped = @ + 1,
                                !.raises = @ + 1, !.log = @ \cup {"warning"}]
    /\ UNCHANGED <<args, not_retry>>

\* The test of the second loop fails: the last if of main, and main returns.
main_attempts_loop_end ==
    /\ driver.pc = "attempts_loop"
    /\ ~attempts_loop_test(driver, args)
    /\ driver' = [driver EXCEPT !.pc = "done",
                                !.log = IF driver.posts = "[]"
                                        THEN @ \cup {"error"} ELSE @]
    /\ UNCHANGED <<args, not_retry>>

----------------------------------------------------------------------------
\* No second process.
NoOther == other = [pc |-> "none"]

\* No migration.
NoConvert == convert = [pc |-> "none"]

----------------------------------------------------------------------------
Init ==
    /\ timeline = 0
    /\ settings \in {[all_hash |-> None], [all_hash |-> ConfiguredHash]}
    /\ table = <<>>
    /\ counter = 1
    /\ pc = "exited"
    /\ number = 0
    /\ all_album = [deletehash |-> None, aid |-> None]
    /\ unchecked = <<>>
    /\ partial = <<>>
    /\ imgs = <<>>
    /\ uploaded = <<>>
    /\ posts = <<>>
    /\ phase = 0
    /\ red = NoRedditPost
    /\ post_urls = <<>>
    /\ result = NotRun
    /\ raised = NoException
    /\ run0 = NoSnapshot
    /\ uploads = [s \in Statuses |-> 0]
    /\ submits = [s \in Statuses |-> 0]
    /\ replies = [s \in Statuses |-> 0]
    /\ albums = 0
    /\ failures = 0
    /\ NoPackage
    /\ NoRetry
    /\ NoOther
    /\ NoConvert

Next ==
    \/ Tweet
    \/ TwitterToReddit_init
    \/ get_statuses
    \/ get_statuses_raises
    \/ ImgurImages_upload
    \/ ImgurImages_upload_raises
    \/ ImgurAlbum_add
    \/ ImgurAlbum_add_raises
    \/ single_album
    \/ single_album_raises
    \/ to_imgur_upsert
    \/ increment_number
    \/ RedditPost_upload
    \/ RedditPost_submit_raises
    \/ RedditPost_reply
    \/ RedditPost_reply_raises
    \/ to_reddit_upsert
    \/ upload_return
    \/ crash
    \/ main_exit

Spec == Init /\ [][Next]_vars

\* Runs keep being started and every call that is tried again and again
\* comes back: main is started and calls upload() infinitely often, and a
\* process inside upload() takes its next step.
Steps ==
    \/ ImgurImages_upload
    \/ ImgurAlbum_add
    \/ single_album
    \/ to_imgur_upsert
    \/ increment_number
    \/ RedditPost_upload
    \/ RedditPost_reply
    \/ to_reddit_upsert
    \/ upload_return

SpecFair ==
    /\ Spec
    /\ SF_vars(TwitterToReddit_init)
    /\ SF_vars(get_statuses)
    /\ WF_vars(Steps)

----------------------------------------------------------------------------
\* A table left by earlier runs: status 1 was tweeted and went through
\* to_imgur, and its document is at one of the stages the document format
\* allows: no post, a post without a comment, or both.
StoredDoc(s, n, stage) ==
    LET entry == db_entry(s, n, <<ImageId(s, 1)>>,
                          [deletehash |-> ConfiguredHash, aid |-> None])
    IN  IF stage = "imgur" THEN entry
        ELSE Merge(entry, reddit_fields(Permalink(s, 1), entry.url,
                                        IF stage = "post" THEN None
                                        ELSE CommentPermalink(s, 1)))

Stages == {"imgur", "post", "done"}

InitStored ==
    /\ timeline = 1
    /\ settings \in {[all_hash |-> None], [all_hash |-> ConfiguredHash]}
    /\ \E stage \in Stages :
          /\ table = <<StoredDoc(1, 1, stage)>>
          /\ uploads = [s \in Statuses |-> IF s = 1 THEN 1 ELSE 0]
          /\ submits = [s \in Statuses |->
                           IF s = 1 /\ stage # "imgur" THEN 1 ELSE 0]
          /\ replies = [s \in Statuses |->
                           IF s = 1 /\ stage = "done" THEN 1 ELSE 0]
    /\ counter = 2
    /\ pc = "exited"
    /\ number = 0
    /\ all_album = [deletehash |-> None, aid |-> None]
    /\ unchecked = <<>>
    /\ partial = <<>>
    /\ imgs = <<>>
    /\ uploaded = <<>>
    /\ posts = <<>>
    /\ phase = 0
    /\ red = NoRedditPost
    /\ post_urls = <<>>
    /\ result = NotRun
    /\ raised = NoException
    /\ run0 = NoSnapshot
    /\ albums = 0
    /\ failures = 0
    /\ NoPackage
    /\ NoRetry
    /\ NoOther
    /\ NoConvert

SpecStored == InitStored /\ [][Next]_vars

----------------------------------------------------------------------------
\* The package's Database on its own: a new database file, no monolith
\* process.
InitDatabase ==
    /\ timeline = 0
    /\ settings = [all_hash |-> None]
    /\ table = <<>>
    /\ counter = 1
    /\ pc = "exited"
    /\ number = 0
    /\ all_album = [deletehash |-> None, aid |-> None]
    /\ unchecked = <<>>
    /\ partial = <<>>
    /\ imgs = <<>>
    /\ uploaded = <<>>
    /\ posts = <<>>
    /\ phase = 0
    /\ red = NoRedditPost
    /\ post_urls = <<>>
    /\ result = NotRun
    /\ raised = NoException
    /\ run0 = NoSnapshot
    /\ uploads = [s \in Statuses |-> 0]
    /\ submits = [s \in Statuses |-> 0]
    /\ replies = [s \in Statuses |-> 0]
    /\ albums = 0
    /\ failures = 0
    /\ NoPackage
    /\ NoRetry
    /\ NoOther
    /\ NoConvert

NextDatabase ==
    \/ Database_init
    \/ Database_get_settings
    \/ Database_update_meta
    \/ Database_increment_number
    \/ Database_exit

SpecDatabase == InitDatabase /\ [][NextDatabase]_vars

----------------------------------------------------------------------------
\* main on its own: one invocation with a command line, either of
\* src/main.py or of the monolith, which takes no --delay and no --attempts.
InitRetry ==
    /\ timeline = 0
    /\ settings = [all_hash |-> None]
    /\ table = <<>>
    /\ counter = 1
    /\ pc = "exited"
    /\ number = 0
    /\ all_album = [deletehash |-> None, aid |-> None]
    /\ unchecked = <<>>
    /\ partial = <<>>
    /\ imgs = <<>>
    /\ uploaded = <<>>
    /\ posts = <<>>
    /\ phase = 0
    /\ red = NoRedditPost
    /\ post_urls = <<>>
    /\ result = NotRun
    /\ raised = NoException
    /\ run0 = NoSnapshot
    /\ uploads = [s \in Statuses |-> 0]
    /\ submits = [s \in Statuses |-> 0]
    /\ replies = [s \in Statuses |-> 0]
    /\ albums = 0
    /\ failures = 0
    /\ NoPackage
    /\ NoOther
    /\ NoConvert
    /\ \/ /\ args \in [delay : 0 .. MaxDelay, attempts : 0 .. MaxAttempts]
          /\ driver = main_start
       \/ /\ args = [delay |-> 0, attempts |-> 0]
          /\ driver = monolith_main_start

NextRetry ==
    \/ monolith_main_upload
    \/ monolith_main_upload_raises
    \/ main_delay_loop
    \/ main_delay_loop_raises
    \/ main_delay_loop_end
    \/ main_attempts_loop
    \/ main_attempts_loop_raises
    \/ main_attempts_loop_end

SpecRetry == InitRetry /\ [][NextRetry]_vars

\* main is a sequential program whose sleep and whose calls come back: it
\* takes its next step whenever it has one.
SpecRetryFair == SpecRetry /\ WF_vars(NextRetry)

----------------------------------------------------------------------------
\* Two processes on one store: each is an invocation of main with its own
\* TwitterToReddit object; the table, the counter document and the accounts
\* at imgur and reddit are shared.  The process that takes the steps is the
\* one in pc, number, all_album, the locals, result, raised and run0; the
\* other one waits in the variable other, and the scheduler may exchange the
\* two between any two steps.  A call on the table is taken as one step, and
\* a process that has returned from upload() may call it again.
Process ==
    [pc |-> pc, number |-> number, all_album |-> all_album,
     unchecked |-> unchecked, partial |-> partial, imgs |-> imgs,
     uploaded |-> uploaded, posts |-> posts, phase |-> phase, red |-> red,
     post_urls |-> post_urls, result |-> result, raised |-> raised,
     run0 |-> run0]

NotStarted ==
    [pc |-> "exited", number |-> 0,
     all_album |-> [deletehash |-> None, aid |-> None],
     unchecked |-> <<>>, partial |-> <<>>, imgs |-> <<>>, uploaded |-> <<>>,
     posts |-> <<>>, phase |-> 0, red |-> NoRedditPost, post_urls |-> <<>>,
     result |-> NotRun, raised |-> NoException, run0 |-> NoSnapshot]

switch ==
    /\ other.pc # "none"
    /\ other' = Process
    /\ pc' = other.pc
    /\ number' = other.number
    /\ all_album' = other.all_album
    /\ unchecked' = other.unchecked
    /\ partial' = other.partial
    /\ imgs' = other.imgs
    /\ uploaded' = other.uploaded
    /\ posts' = other.posts
    /\ phase' = other.phase
    /\ red' = other.red
    /\ post_urls' = other.post_urls
    /\ result' = other.result
    /\ raised' = other.raised
    /\ run0' = other.run0
    /\ UNCHANGED <<failures, timeline, settings, package, retry, convert, persistent,
                   external>>

\* Statuses 1, 2 and 3 were tweeted, nothing is stored, and both processes
\* are about to be started.
InitConcurrent ==
    /\ timeline = 3
    /\ settings \in {[all_hash |-> None], [all_hash |-> ConfiguredHash]}
    /\ table = <<>>
    /\ counter = 1
    /\ pc = "exited"
    /\ number = 0
    /\ all_album = [deletehash |-> None, aid |-> None]
    /\ unchecked = <<>>
    /\ partial = <<>>
    /\ imgs = <<>>
    /\ uploaded = <<>>
    /\ posts = <<>>
    /\ phase = 0
    /\ red = NoRedditPost
    /\ post_urls = <<>>
    /\ result = NotRun
    /\ raised = NoException
    /\ run0 = NoSnapshot
    /\ other = NotStarted
    /\ uploads = [s \in Statuses |-> 0]
    /\ submits = [s \in Statuses |-> 0]
    /\ replies = [s \in Statuses |-> 0]
    /\ albums = 0
    /\ failures = 0
    /\ NoPackage
    /\ NoRetry
    /\ NoConvert

NextConcurrent ==
    \/ switch
    \/ TwitterToReddit_init
    \/ get_statuses
    \/ ImgurImages_upload
    \/ ImgurAlbum_add
    \/ to_imgur_upsert
    \/ increment_number
    \/ RedditPost_upload
    \/ RedditPost_reply
    \/ to_reddit_upsert
    \/ upload_return

SpecConcurrent == InitConcurrent /\ [][NextConcurrent]_vars

----------------------------------------------------------------------------
\* The migration (src/convert_database.py): main moves the number of the
\* number_counter document into a document of the meta table and replaces
\* every document of the table that has a "sid" by a document of the new
\* format.  One action per call on the store; the process may be killed
\* between any two of them and main be started again.  A document of the
\* old format is identified by its sid in the place of its doc_id.
not_convert == <<timeline, settings, counter, pc, number, all_album, locals, result,
                 raised, run0, external, failures, db, db_result, retry, other>>

ConvertStart(tbl) ==
    [pc |-> "exited", number |-> 0, comics |-> <<>>, number_counter |-> TRUE,
     killed |-> 0, exc |-> "none", v1 |-> tbl]

\* where("sid").exists()
HasSid(doc) == "sid" \in DOMAIN doc

\* meta_document of main, with the number read from the number_counter
\* document.
meta_document(n, cfg) ==
    [imgur |-> [album_id |-> Get(cfg, "all_aid"), deletehash |-> Get(cfg, "all_hash")],
     number |-> n,
     reddit |-> [subreddit |-> "comics"],
     table |-> TableName,
     twitter |-> [user_name |-> "artist"]]

\* new_document of main for a document that has every key it reads.
new_document(comic, cfg) ==
    [comic |-> [number |-> comic.number, title |-> comic.title],
     imgur |-> [album_id |-> IF comic.aid # None THEN comic.aid
                             ELSE IF comic.album = None \/ Get(cfg, "all_hash") = comic.album
                             THEN Get(cfg, "all_aid") ELSE None,
                deletehash |-> IF comic.album # None THEN comic.album
                               ELSE Get(cfg, "all_hash"),
                direct_link |-> comic.url,
                image_id |-> comic.imgs[1]],
     reddit |-> [comment |-> comic.comment, post |-> comic.post],
     twitter |-> [status_id |-> comic.sid, text |-> comic.raw]]

\* The keys new_document reads with comic[...]: a missing one is a KeyError.
ReadKeys == {"number", "aid", "album", "url", "imgs", "comment", "post", "sid", "raw"}

\* table.remove(doc_ids=[comic.doc_id])
table_remove(tbl, comic) ==
    SelectSeq(tbl, LAMBDA d : ~(HasSid(d) /\ d.sid = comic.sid))

\* main up to the test of line 79: the database is opened and the meta table
\* searched; without a meta document the number is read (line 81).
convert_main ==
    /\ convert.pc \in {"exited", "raised", "done"}
    /\ convert' = [convert EXCEPT
                      !.pc = IF meta_search(meta, TableName) # {} THEN "search"
                             ELSE IF convert.number_counter THEN "meta_upsert"
                             ELSE "raised",
                      !.exc = IF meta_search(meta, TableName) = {}
                                 /\ ~convert.number_counter
                              THEN "IndexError" ELSE "none",
                      !.number = IF meta_search(meta, TableName) = {}
                                    /\ convert.number_counter
                                 THEN counter ELSE 0,
                      !.comics = <<>>]
    /\ UNCHANGED <<table, meta, not_convert>>

\* meta.upsert(meta_document, where("table") == config.get("table"))
convert_meta_upsert ==
    /\ convert.pc = "meta_upsert"
    /\ meta' = meta_upsert(meta, meta_document(convert.number, settings), TableName)
    /\ convert' = [convert EXCEPT !.pc = "remove_counter"]
    /\ UNCHANGED <<table, not_convert>>

\* Lines 99-106: the number_counter document is removed from the table.
convert_remove_counter ==
    /\ convert.pc = "remove_counter"
    /\ convert' = [convert EXCEPT !.pc = "search", !.number_counter = FALSE]
    /\ UNCHANGED <<table, meta, not_convert>>

\* comics = table.search(where("sid").exists())
convert_search ==
    /\ convert.pc = "search"
    /\ LET comics == SelectSeq(table, HasSid)
       IN  convert' = [convert EXCEPT !.comics = comics,
                                      !.pc = IF comics = <<>> THEN "done" ELSE "insert"]
    /\ UNCHANGED <<table, meta, not_convert>>

\* One turn of the loop up to table.insert(new_document).
convert_insert ==
    /\ convert.pc = "insert"
    /\ LET comic == Head(convert.comics)
       IN  IF ReadKeys \subseteq DOMAIN comic
           THEN /\ table' = Append(table, new_document(comic, settings))
                /\ convert' = [convert EXCEPT !.pc = "remove"]
           ELSE /\ table' = table
                /\ convert' = [convert EXCEPT !.pc = "raised", !.exc = "KeyError",
                                              !.comics = <<>>]
    /\ UNCHANGED <<meta, not_convert>>

\* table.remove(doc_ids=[comic.doc_id]), and the next turn or the end.
convert_remove ==
    /\ convert.pc = "remove"
    /\ table' = table_remove(table, Head(convert.comics))
    /\ convert' = [convert EXCEPT !.comics = Tail(@),
                                  !.pc = IF Tail(convert.comics) = <<>>
                                         THEN "done" ELSE "insert"]
    /\ UNCHANGED <<meta, not_convert>>

\* The process is killed between two calls on the store.
convert_kill ==
    /\ convert.pc \in {"meta_upsert", "remove_counter", "search", "insert", "remove"}
    /\ convert.killed < MaxFailures
    /\ convert' = [convert EXCEPT !.pc = "exited", !.killed = @ + 1, !.comics = <<>>,
                                  !.number = 0]
    /\ UNCHANGED <<table, meta, not_convert>>

\* A table the monolith left: the documents of statuses 1 and 3, each at one
\* of its stages, and the number_counter document at 3.
InitConvert ==
    /\ timeline = 3
    /\ settings \in {[all_hash |-> None], [all_hash |-> ConfiguredHash]}
    /\ \E st1, st3 \in Stages :
          table = <<StoredDoc(1, 1, st1), StoredDoc(3, 2, st3)>>
    /\ counter = 3
    /\ pc = "exited"
    /\ number = 0
    /\ all_album = [deletehash |-> None, aid |-> None]
    /\ unchecked = <<>>
    /\ partial = <<>>
    /\ imgs = <<>>
    /\ uploaded = <<>>
    /\ posts = <<>>
    /\ phase = 0
    /\ red = NoRedditPost
    /\ post_urls = <<>>
    /\ result = NotRun
    /\ raised = NoException
    /\ run0 = NoSnapshot
    /\ uploads = [s \in Statuses |-> 0]
    /\ submits = [s \in Statuses |-> 0]
    /\ replies = [s \in Statuses |-> 0]
    /\ albums = 0
    /\ failures = 0
    /\ NoPackage
    /\ NoRetry
    /\ NoOther
    /\ convert = ConvertStart(table)

NextConvert ==
    \/ convert_main
    \/ convert_meta_upsert
    \/ convert_remove_counter
    \/ convert_search
    \/ convert_insert
    \/ convert_remove
    \/ convert_kill

SpecConvert == InitConvert /\ [][NextConvert]_vars

----------------------------------------------------------------------------
\* The claims.

\* The document of status s in a table, as a sequence of at most one element.
Doc(tbl, s) == check_upload(tbl, s)
HasPost(tbl, s) == Doc(tbl, s) # <<>> /\ Get(Doc(tbl, s)[1], "post") # None

\* C1: over any sequence of runs, crashed ones included, imgur is never asked
\* again to upload media of a status that it already hosts: it accepts at
\* most one upload per media reference of a status.
C1_NoRepeatedMediaUpload ==
    \A s \in Statuses : uploads[s] <= MediaCount(s)

\* C2: once the link post of a status was created, no later run calls submit
\* for that status again, also when the run that created it ended before the
\* comment was made.
C2_NoResubmitAfterInterruptedComment ==
    \A s \in Statuses : submits[s] <= 1

\* C3: the comment call is never issued for a status whose document still
\* has no post: whenever reddit has accepted a reply for a status, the table
\* holds the post of that status.
C3_PostPersistedBeforeComment ==
    \A s \in Statuses : replies[s] > 0 => HasPost(table, s)

\* C4: when upload() starts with a status whose document was persisted by
\* to_imgur and for which no submit was made yet (the earlier run ended
\* between the two stages) and returns its list, then it has submitted the
\* post of that status exactly once, has made no upload call for it, has
\* left its imgs unchanged and has set its post.
C4_Interrupted(s) ==
    /\ Doc(run0.table, s) # <<>>
    /\ Get(Doc(run0.table, s)[1], "post") = None
    /\ run0.submits[s] = 0

C4_ResumeAfterMedia ==
    (pc = "idle" /\ result.kind = "list") =>
        \A s \in Statuses :
            C4_Interrupted(s) =>
                /\ submits[s] = 1
                /\ uploads[s] = run0.uploads[s]
                /\ Len(Doc(table, s)) = 1
                /\ Doc(table, s)[1].imgs = Doc(run0.table, s)[1].imgs
                /\ Doc(table, s)[1].post = Permalink(s, 1)

C4_Witness ==
    /\ pc = "idle"
    /\ result.kind = "list"
    /\ \E s \in Statuses : C4_Interrupted(s) /\ HasPost(table, s)

\* C5: a post that is in the table stays: no step replaces the post of a
\* document by another value, and no step calls submit for a status whose
\* document has a post.
C5_NoDuplicatePosts ==
    [][\A s \in Statuses :
          HasPost(table, s) =>
              /\ Doc(table', s) # <<>>
              /\ Doc(table', s)[1].post = Doc(table, s)[1].post
              /\ submits'[s] = submits[s]]_vars

C5_Witness ==
    /\ pc = "idle"
    /\ result.kind = "None"
    /\ \E s \in Statuses : HasPost(table, s) /\ HasPost(run0.table, s)

\* C6: the numbers of the documents are strictly increasing in the order in
\* which the documents were inserted, so that no two documents carry the same
\* number.
C6_SequenceMonotonic ==
    \A p, q \in DOMAIN table : p < q => table[p].number < table[q].number

\* C7: no document has a post while its imgs or its url are missing.
C7_StageOrdering ==
    \A p \in DOMAIN table :
        Get(table[p], "post") # None =>
            /\ Get(table[p], "imgs") # <<>>
            /\ Get(table[p], "url") # None

C7_Witness ==
    \E p \in DOMAIN table : Get(table[p], "post") # None /\ table[p].imgs # <<>>

C9_ItemFailureIsolated ==
    ~(/\ pc = "exited"
      /\ raised.call \in {"upload_from_url", "submit", "reply"}
      /\ raised.left # {})

\* C10: the step in which upload_from_url fails changes neither the table nor
\* the counter, leaves the status without a document, and get_statuses puts
\* the status in the unchecked list again.
C10_FailedUploadPersistsNothing ==
    [][(pc = "upload_image" /\ raised'.call = "upload_from_url") =>
          /\ table' = table
          /\ counter' = counter
          /\ Doc(table', Head(unchecked)) = <<>>
          /\ Head(unchecked) \in Range(Unchecked(table', GetUserTimeline(timeline')))]_vars

C10_Witness ==
    /\ pc = "exited"
    /\ raised.call = "upload_from_url"
    /\ Doc(table, raised.sid) = <<>>
    /\ uploads[raised.sid] > 0

\* C11: every document that has a comment also has a post.
C11_CommentImpliesPost ==
    \A p \in DOMAIN table :
        Get(table[p], "comment") # None => Get(table[p], "post") # None

C11_Witness ==
    \E p \in DOMAIN table :
        /\ Get(table[p], "comment") = CommentPermalink(table[p].sid, 1)
        /\ replies[table[p].sid] = 1

\* C12: every document with image ids has a direct link: a document enters
\* the table with both, and no step changes the imgs or the url of a document
\* that is in the table.
C12_MediaIdImpliesLink ==
    [][\A s \in Statuses :
          /\ Doc(table', s) # <<>> =>
                 (Get(Doc(table', s)[1], "imgs") # <<>> =>
                      Get(Doc(table', s)[1], "url") # None)
          /\ Doc(table, s) # <<>> =>
                 /\ Doc(table', s) # <<>>
                 /\ Get(Doc(table', s)[1], "imgs") = Get(Doc(table, s)[1], "imgs")
                 /\ Get(Doc(table', s)[1], "url") = Get(Doc(table, s)[1], "url")]_vars

C12_Witness ==
    /\ pc = "increment"
    /\ Doc(table, Head(unchecked)) # <<>>
    /\ Doc(table, Head(unchecked))[1].imgs = imgs
    /\ Doc(table, Head(unchecked))[1].url = DirectLink(imgs[1])

\* C13: a status that get_statuses classified as new has a document from
\* that moment on, and imgur is asked for an upload only for a status that
\* has a document.
C13_RecordCreatedAtDiscovery ==
    \A s \in Statuses :
        (s \in Range(unchecked) \/ uploads[s] > 0) => Doc(table, s) # <<>>

\* C14: a status without media is ignored: it is in no list of upload(), it
\* has no document, no upload, submit or reply is made for it, and the
\* counter has advanced at most once for each document of a status with
\* media.
C14_NoMediaIgnored ==
    /\ \A s \in Statuses :
          MediaCount(s) = 0 =>
              /\ s \notin Range(unchecked) \cup Range(partial)
              /\ s \notin Sids(uploaded) \cup Sids(posts)
              /\ Doc(table, s) = <<>>
              /\ uploads[s] = 0
              /\ submits[s] = 0
              /\ replies[s] = 0
    /\ counter - 1 <=
           Cardinality({p \in DOMAIN table : MediaCount(table[p].sid) > 0})

C14_Witness ==
    /\ pc = "idle"
    /\ result.kind = "list"
    /\ \E s \in Statuses : MediaCount(s) = 0 /\ s <= run0.timeline

\* C15: no step changes the document of a status that has a post and a
\* comment or makes an upload, submit or reply call for it; and the upload()
\* that starts right after an upload() that returned, with the timeline
\* unchanged, returns None and changes neither the table, the counter nor
\* the calls made.
Complete(tbl, s) == HasPost(tbl, s) /\ Get(Doc(tbl, s)[1], "comment") # None

C15_RerunIdempotent ==
    [][/\ \A s \in Statuses :
             Complete(table, s) =>
                 /\ Doc(table', s) = Doc(table, s)
                 /\ uploads'[s] = uploads[s]
                 /\ submits'[s] = submits[s]
                 /\ replies'[s] = replies[s]
       /\ (/\ pc = "idle"
           /\ result.kind \in {"None", "list"}
           /\ run0.timeline = timeline
           /\ timeline' = timeline
           /\ pc' # "exited") =>
              /\ result' = NoWork
              /\ pc' = "idle"
              /\ persistent' = persistent
              /\ external' = external]_vars

C15_Witness ==
    /\ pc = "idle"
    /\ result.kind = "None"
    /\ run0.timeline = timeline
    /\ run0.table = table
    /\ \E s \in Statuses : Complete(table, s) /\ replies[s] = run0.replies[s]

\* C16: no step makes a persisted counter smaller: neither the number of the
\* monolith's number_counter document nor the number of a document of the
\* package's meta table.
C16_CounterMonotonic ==
    [][/\ counter' >= counter
       /\ \A p \in DOMAIN meta :
             /\ p \in DOMAIN meta'
             /\ meta'[p].number >= meta[p].number]_vars

\* C17: the counter changes only in the step after to_imgur's upsert, by one,
\* when imgur has accepted the upload of the status and its document is in
\* the table with its imgs and the number the counter held; it never runs
\* ahead of the documents, and an upload() that returns has advanced it by
\* one for each document it inserted.
C17_IncrementAfterPersist ==
    [][/\ counter' # counter =>
             /\ counter' = counter + 1
             /\ pc = "increment"
             /\ uploads[Head(unchecked)] > 0
             /\ Doc(table, Head(unchecked)) # <<>>
             /\ Doc(table, Head(unchecked))[1].imgs # <<>>
             /\ Doc(table, Head(unchecked))[1].url # None
             /\ Doc(table, Head(unchecked))[1].number = number
             /\ table' = table
       /\ (pc = "increment" /\ pc' \notin {"increment", "exited"}) =>
              counter' = counter + 1
       /\ counter' - 1 <= Len(table')
       /\ (pc' = "idle" /\ result'.kind = "list") =>
              counter' - run0'.counter = Len(table') - Len(run0'.table)]_vars

C17_Witness ==
    /\ pc = "idle"
    /\ result.kind = "list"
    /\ counter = run0.counter + 2
    /\ Len(table) = Len(run0.table) + 2

\* C18: no step changes the number of a document that is in the table.
C18_NumberAssignedOnce ==
    [][\A s \in Statuses :
          Doc(table, s) # <<>> =>
              /\ Doc(table', s) # <<>>
              /\ Get(Doc(table', s)[1], "number") = Get(Doc(table, s)[1], "number")]_vars

C18_Witness ==
    /\ pc = "idle"
    /\ result.kind = "None"
    /\ \E s \in Statuses :
          /\ HasPost(table, s)
          /\ Doc(table, s)[1].number + 1 < counter

\* C19: the table never holds two documents with the same sid.
C19_OneRecordPerItem ==
    \A s \in Statuses : Len(Doc(table, s)) <= 1

C19_Witness ==
    /\ Len(table) >= 2
    /\ \A p \in DOMAIN table :
          /\ Get(table[p], "comment") # None
          /\ submits[table[p].sid] = 1

\* C20: a step of to_reddit leaves the counter and the number of documents
\* as they are, changes no document of another status, and in the document
\* of its status changes no field other than post, comment and url.
C20_PostStageFrame ==
    [][(pc \in {"submit", "reply", "reddit_upsert"}) =>
          /\ counter' = counter
          /\ Len(table') = Len(table)
          /\ \A p \in DOMAIN table :
                IF table[p].sid # Head(posts).sid
                THEN table'[p] = table[p]
                ELSE /\ DOMAIN table'[p] \subseteq
                            (DOMAIN table[p] \cup {"post", "comment", "url"})
                     /\ \A k \in (DOMAIN table[p]) \ {"post", "comment", "url"} :
                            (k \in DOMAIN table'[p] /\ table'[p][k] = table[p][k])]_vars

C20_Witness ==
    /\ pc = "submit"
    /\ \E p, q \in DOMAIN table :
          /\ Get(table[p], "comment") # None
          /\ Get(table[q], "post") = None
          /\ Head(posts).sid = table[q].sid

\* C21: within one upload() the statuses are worked off in the order of the
\* timeline: a call is made for a status only when no eligible status that
\* the timeline lists before it still waits for that call; and for each
\* status the uploads come before the submit and the submit before the
\* reply.
Eligible0(s) ==
    /\ MediaCount(s) > 0
    /\ s <= run0.timeline
    /\ ~HasPost(run0.table, s)

New0(s) == Eligible0(s) /\ Doc(run0.table, s) = <<>>

C21_FeedOrder ==
    [][\A s \in Statuses :
          /\ uploads'[s] > uploads[s] =>
                 /\ submits[s] = run0.submits[s]
                 /\ \A s2 \in Statuses :
                       (New0(s2) /\ s2 > s) =>
                           uploads[s2] >= run0.uploads[s2] + MediaCount(s2)
          /\ submits'[s] > submits[s] =>
                 /\ uploads[s] >= MediaCount(s)
                 /\ replies[s] = run0.replies[s]
                 /\ \A s2 \in Statuses :
                       (Eligible0(s2) /\ s2 > s) => submits[s2] > run0.submits[s2]
          /\ replies'[s] > replies[s] =>
                 /\ submits[s] > run0.submits[s]
                 /\ \A s2 \in Statuses :
                       (Eligible0(s2) /\ s2 > s) => replies[s2] > run0.replies[s2]]_vars

\* C22: once upload() has handed main a list that is not empty, main makes
\* no call of upload() any more.
C22_SinglePass ==
    [][(driver.posts = "list") => driver'.calls = driver.calls]_vars

C22_Witness ==
    /\ driver.pc = "done"
    /\ driver.kind = "main.py"
    /\ driver.posts = "list"
    /\ driver.calls = 1
    /\ driver.delay <= args.delay

\* C23: main makes at most args.delay calls of upload() in its first loop
\* and at most args.attempts calls in its second (the monolith: one call and
\* at most 60), and it comes to its end.
C23_Bound ==
    IF driver.kind = "monolith"
    THEN driver.calls - driver.looped <= 1 /\ driver.looped <= MonolithAttempts
    ELSE driver.calls - driver.looped <= args.delay /\ driver.looped <= args.attempts

C23_BoundedCalls ==
    [](C23_Bound) /\ <>(driver.pc \in {"done", "raised"})

C23_Witness ==
    /\ driver.pc = "done"
    /\ driver.kind = "main.py"
    /\ args.delay > 1
    /\ args.attempts > 1
    /\ driver.calls - driver.looped = args.delay
    /\ driver.looped = args.attempts

\* C24: when every call of upload() handed back None and main has come to
\* its end, main has logged a warning.
C24_ExhaustionWarned ==
    (/\ driver.pc = "done"
     /\ driver.posts = "None"
     /\ driver.calls > 0
     /\ driver.looped = 0) => "warning" \in driver.log

\* C25: main lets an exception of upload() out only after it has called
\* upload() again after an earlier exception.
C25_FeedFailureRetried ==
    driver.pc = "raised" => driver.raises > 1

\* C26: upload() returns None exactly when every status of the timeline
\* that has media has a document with a post; each post that to_reddit makes
\* is appended to the list before the next one is made, and the list that
\* upload() returns holds these posts and nothing else.
NoEligible(tbl, tl) ==
    \A s \in 1 .. tl : MediaCount(s) > 0 => HasPost(tbl, s)

C26_Result ==
    [][/\ (pc = "idle" /\ pc' # "exited" /\ timeline' = timeline) =>
              /\ (result' = NoWork) <=> NoEligible(table, timeline)
              /\ result' \in {NoWork, NotRun}
       /\ \A s \in Statuses :
              submits'[s] # submits[s] =>
                  /\ pc = "submit"
                  /\ submits'[s] = run0.submits[s] + 1
                  /\ Permalink(s, submits'[s]) \notin Range(post_urls)
       /\ (pc = "reddit_upsert" /\ pc' # "exited" /\ timeline' = timeline) =>
              /\ submits[Head(posts).sid] = run0.submits[Head(posts).sid] + 1
              /\ post_urls' = Append(post_urls,
                                     Permalink(Head(posts).sid, submits[Head(posts).sid]))
       /\ (pc = "return" /\ pc' = "idle") =>
              /\ result' = Posts(post_urls)
              /\ Range(post_urls) =
                     {Permalink(s, submits[s]) :
                         s \in {x \in Statuses : submits[x] > run0.submits[x]}}
              /\ Len(post_urls) =
                     Cardinality({x \in Statuses : submits[x] > run0.submits[x]})]_vars

C26_Witness ==
    /\ pc = "idle"
    /\ result.kind = "list"
    /\ Len(result.posts) = 2
    /\ result.posts[1] # result.posts[2]

\* C27: adding to an album that has a deletehash makes no create_album call
\* and leaves the album as it is, and the documents of all runs name one and
\* the same shared album.
C27_SharedCollectionOnce ==
    [][/\ (pc = "all_add" /\ all_album.deletehash # None) =>
              /\ albums' = albums
              /\ pc' # "exited" => all_album' = all_album
       /\ \A p, q \in DOMAIN table' : table'[p].album = table'[q].album]_vars

\* C28: within one upload() imgur is asked at most once for each media entry
\* of a status, and when to_imgur has returned it was asked exactly once for
\* each media entry of each new status and not at all for any other status.
C28_UploadOncePerRun ==
    (pc \notin {"exited", "idle"}) =>
        \A s \in Statuses :
            /\ uploads[s] <= run0.uploads[s] + MediaCount(s)
            /\ ~New0(s) => uploads[s] = run0.uploads[s]
            /\ (pc \in {"submit", "reply", "reddit_upsert", "return"} /\ New0(s)) =>
                   uploads[s] = run0.uploads[s] + MediaCount(s)

C28_Witness ==
    /\ pc = "submit"
    /\ phase = 1
    /\ Len(uploaded) = 2
    /\ \A p \in DOMAIN uploaded :
          New0(uploaded[p].sid) /\ uploads[uploaded[p].sid] = run0.uploads[uploaded[p].sid] + 1

\* C29: nothing keeps a process from starting upload() while a second
\* process on the same store is inside its own, whatever that one is doing;
\* and when both have classified a status as new before either stored its
\* document, the media of that status is uploaded once by each of them as
\* soon as both have left to_imgur, and its post is submitted once by each of
\* them when both have returned their lists.
C29_OtherNew(s) ==
    /\ MediaCount(s) > 0
    /\ s <= other.run0.timeline
    /\ Doc(other.run0.table, s) = <<>>

C29_AfterImgur(p) ==
    \/ p.pc \in {"submit", "reply", "reddit_upsert", "return"}
    \/ p.pc = "idle" /\ p.result.kind = "list"

C29_Returned(p) == p.pc = "idle" /\ p.result.kind = "list"

C29_Unprotected ==
    (other.pc # "none") =>
        /\ (pc = "idle") => ENABLED get_statuses
        /\ \A s \in Statuses :
              (New0(s) /\ C29_OtherNew(s)) =>
                  /\ (C29_AfterImgur(Process) /\ C29_AfterImgur(other)) =>
                         uploads[s] >= 2 * MediaCount(s)
                  /\ (C29_Returned(Process) /\ C29_Returned(other)) =>
                         submits[s] >= 2

\* Both processes have returned, both had found status 1 new, and imgur and
\* reddit were each asked twice for it.
C29_Witness ==
    /\ other.pc # "none"
    /\ C29_Returned(Process)
    /\ C29_Returned(other)
    /\ New0(1)
    /\ C29_OtherNew(1)
    /\ uploads[1] = 2
    /\ submits[1] = 2

\* Two documents of the table carry the same number.
C29_SameNumber ==
    /\ other.pc # "none"
    /\ \E p, q \in DOMAIN table : p # q /\ table[p].number = table[q].number

\* C30: constructing Database with a first_time that names another table
\* than the configured one, or whose user_name (subreddit) at the root
\* differs from the one in its twitter (reddit) group, raises KeyError,
\* leaves the meta table as it was and yields no Database object.
C30_Contradictory(first_time) ==
    \/ /\ "table" \in DOMAIN first_time
       /\ first_time.table # TableName
    \/ /\ {"user_name", "twitter"} \subseteq DOMAIN first_time
       /\ "user_name" \in DOMAIN first_time.twitter
       /\ first_time.twitter.user_name # first_time.user_name
    \/ /\ {"subreddit", "reddit"} \subseteq DOMAIN first_time
       /\ "subreddit" \in DOMAIN first_time.reddit
       /\ first_time.reddit.subreddit # first_time.subreddit

C30_ContradictionRejected ==
    [][(/\ db = NoDatabase
        /\ db_result'.op = "__init__"
        /\ db_result' # db_result
        /\ C30_Contradictory(db_result'.first_time)) =>
           /\ db_result'.kind = "KeyError"
           /\ meta' = meta
           /\ db' = NoDatabase]_vars

C30_Witness ==
    /\ db_result.op = "__init__"
    /\ db_result.kind = "KeyError"
    /\ C30_Contradictory(db_result.first_time)
    /\ meta # <<>>
    /\ db = NoDatabase

\* C31: upload() never returns an empty list: what it returns is None or a
\* list that holds at least one post, none of them None; so with the value
\* it returned the test of main's second loop is false for every command
\* line, in src/main.py and in the monolith, and the last if of main does
\* not log its error.
C31_Posts(r) ==
    IF r.kind = "None" THEN "None" ELSE IF r.posts = <<>> THEN "[]" ELSE "list"

C31_NeverEmptyList ==
    (result.kind \in {"None", "list"}) =>
        /\ result.kind = "list" =>
               /\ result.posts # <<>>
               /\ \A p \in DOMAIN result.posts : result.posts[p] # None
        /\ C31_Posts(result) # "[]"
        /\ \A a \in [delay : 0 .. MaxDelay, attempts : 0 .. MaxAttempts],
              d \in {main_start, monolith_main_start} :
              ~attempts_loop_test([d EXCEPT !.posts = C31_Posts(result)], a)

\* upload() found nothing new and one document without a post, and returned
\* the list of that one post.
C31_Witness ==
    /\ pc = "idle"
    /\ result.kind = "list"
    /\ Len(result.posts) = 1
    /\ \A s \in Statuses : ~New0(s)
    /\ \E s \in Statuses : Eligible0(s) /\ HasPost(table, s)

\* C32: a run in which every call comes back and which nobody kills
\* completes what it found: upload() ends early only by a failed call or a
\* kill, and when it returns, every status that was eligible at its start has
\* a document with its post and its comment.
FailedCalls ==
    {"GetUserTimeline", "upload_from_url", "album_add_images", "create_album",
     "submit", "reply", "crash"}

C32_CompletesWhenCallsSucceed ==
    [][/\ (pc \notin {"exited", "idle"} /\ pc' = "exited") =>
              raised'.call \in FailedCalls
       /\ (pc = "return" /\ pc' = "idle") =>
              \A s \in Statuses : Eligible0(s) => Complete(table', s)]_vars

\* The same as a property of the behaviours in which runs keep being started
\* and the calls keep coming back: every status with media that is in the
\* timeline eventually has a document with its post and its comment.
C32_EventualCompletion ==
    \A s \in Statuses :
        [](s <= timeline /\ MediaCount(s) > 0 => <>Complete(table, s))

\* The same for the statuses with one image, as long as no status with two
\* images is in the timeline.
C32_SingleImageCompletion ==
    [](\A s \in Statuses : s <= timeline => MediaCount(s) <= 1) =>
        \A s \in Statuses :
            [](s <= timeline /\ MediaCount(s) = 1 => <>Complete(table, s))

\* A status with two images never gets a document.
C32_MultiImageNeverStored ==
    \A s \in Statuses : MediaCount(s) > 1 => Doc(table, s) = <<>>

\* C33: for a new status with more than one image, once its images are
\* uploaded and imgur has created the album of the status, to_imgur goes on
\* without an exception to the upsert of its document.
C33_MultiMediaStage ==
    [][(pc = "single_album" /\ albums' = albums + 1) =>
           /\ pc' = "upsert"
           /\ raised' = NoException]_vars

\* C34: whatever --delay and --attempts are, main has called upload() at
\* least once when it returns.
C34_UploadCalled ==
    (driver.pc = "done") => driver.calls >= 1

\* The documents of the new format that a table holds for a document of the
\* old format, and what the migration has to keep of it.
C35_V2(tbl, d) ==
    {p \in DOMAIN tbl : ~HasSid(tbl[p]) /\ tbl[p].twitter.status_id = d.sid}

C35_Kept(tbl, d) ==
    /\ Cardinality(C35_V2(tbl, d)) = 1
    /\ \A p \in C35_V2(tbl, d) :
          /\ tbl[p].comic.number = d.number
          /\ tbl[p].reddit.post = Get(d, "post")
          /\ tbl[p].reddit.comment = Get(d, "comment")

C35_NoV1(tbl) == \A p \in DOMAIN tbl : ~HasSid(tbl[p])

\* C35: a migration that nobody interrupts raises no exception, and when it
\* is done the table holds no document of the old format and, for every
\* document it held before, exactly one document of the new format with the
\* same status id, number, post and comment; a document without a post and
\* without a comment key included.
C35_MigrationPreserves ==
    (convert.pc # "none" /\ convert.killed = 0) =>
        /\ convert.pc # "raised"
        /\ (convert.pc = "done") =>
               /\ C35_NoV1(table)
               /\ \A d \in Range(convert.v1) : C35_Kept(table, d)

\* C36: when the migration is done, after whatever interruptions and
\* restarts, the table holds no document of the old format and exactly one
\* document of the new format for every document it held before, and the
\* meta document of the table carries the number of the number_counter
\* document.
C36_InterruptedMigration ==
    (convert.pc = "done") =>
        /\ C35_NoV1(table)
        /\ \A d \in Range(convert.v1) : Cardinality(C35_V2(table, d)) = 1
        /\ Cardinality(meta_search(meta, TableName)) = 1
        /\ \A p \in meta_search(meta, TableName) : meta[p].number = counter

\* C37: every call of increment_number on a Database whose table has a meta
\* document returns, raises the number of that document by exactly one and
\* returns the new number; also the first call on a new object, before any
\* get_settings.
C37_IncrementByOne ==
    [][(/\ db # NoDatabase
        /\ meta_search(meta, db.table_name) # {}
        /\ db_result'.op = "increment_number"
        /\ (db_result' # db_result \/ meta' # meta)) =>
           /\ db_result'.kind = "return"
           /\ \A p \in meta_search(meta, db.table_name) :
                 /\ meta'[p].number = meta[p].number + 1
                 /\ db_result'.number = meta[p].number + 1]_vars

====
